---- MODULE Spec2Model ----
(***************************************************************************)
(* A model of pdf_splitter.py: the command-line entry point (main), the    *)
(* batch driver (process_pdfs) and the adaptive chunking loop (split_pdf), *)
(* running single-threaded against a filesystem.                           *)
(*                                                                         *)
(* Sizes.  os.path.getsize returns bytes and get_file_size_mb divides by   *)
(* 1024 * 1024.  A size in MB is represented here by its numerator over    *)
(* BytesPerMB, i.e. by the byte count; max_size_mb is a whole number of MB *)
(* and is multiplied by BytesPerMB wherever the code compares or divides   *)
(* the two.  (The division by 2^20 is exact in binary floating point.)     *)
(*                                                                         *)
(* Faults.  Every library or filesystem call of split_pdf may raise; the   *)
(* model chooses nondeterministically between the call's outcomes.         *)
(***************************************************************************)
EXTENDS Integers, Sequences, FiniteSets, TLC

\* ---------------------------------------------------------------- bounds
\* Largest number of pages of a document that is alone on the disk.
MaxPages == 5
\* Largest number of pages, taken together, of documents that share the disk.
MaxBatchPages == 2
\* Largest number of files on disk when the run starts.
MaxDocs == 2
\* Writes allowed for one chunk start (never reached by the code as written).
AttemptCap == 5

\* ------------------------------------------------------ program constants
BytesPerMB == 1048576
DefaultMaxSize == 4

\* ------------------------------------------------------------ the universe
\* --max-size values given on the command line.
MaxSizes == {-1, 0, DefaultMaxSize}

\* A path: directory, file stem and suffix.  The stem is a base name followed
\* by the ordinals of the "_part{n}" endings appended to it, so that
\* "a_part1.pdf" is the path with base "a" and parts <<1>>.
PathA == [parent |-> "d1", base |-> "a", parts |-> <<>>, suffix |-> ".pdf"]
PathA1 == [parent |-> "d1", base |-> "a", parts |-> <<1>>, suffix |-> ".pdf"]
PathB == [parent |-> "d2", base |-> "b", parts |-> <<>>, suffix |-> ".PDF"]
NoPath == [parent |-> "", base |-> "", parts |-> <<>>, suffix |-> ""]
SourcePaths == {PathA, PathA1, PathB}
Dirs == {"d1", "d2"}

\* Sizes in bytes of a file that is alone on the disk when the run starts:
\* at the default ceiling, one byte over it, and twice it.
FileSizes == {DefaultMaxSize * BytesPerMB, DefaultMaxSize * BytesPerMB + 1, 2 * DefaultMaxSize * BytesPerMB}
\* Sizes in bytes of files that share the disk when the run starts.
BatchFileSizes == {DefaultMaxSize * BytesPerMB, DefaultMaxSize * BytesPerMB + 1}
\* Sizes in bytes a completely written fragment may turn out to have.
FragSizes == {DefaultMaxSize * BytesPerMB, DefaultMaxSize * BytesPerMB + 1}
\* Sizes in bytes of what an interrupted write leaves behind.
PartialSizes == {0, DefaultMaxSize * BytesPerMB + 1}

\* The forms of the positional argument: the name of one file, the name of a
\* directory, or a pattern ("*/*") matching every file of every directory.
InputPatterns == [form : {"name"}, parent : {""}, path : SourcePaths]
                   \cup [form : {"dir"}, parent : Dirs, path : {NoPath}]
                   \cup [form : {"glob"}, parent : {""}, path : {NoPath}]

\* -------------------------------------------------------------- helpers
Range(s) == {s[i] : i \in DOMAIN s}

Max(a, b) == IF a >= b THEN a ELSE b

\* All orderings of a finite set, as sequences.
Orderings(S) == {s \in [1..Cardinality(S) -> S] : \A i, j \in DOMAIN s : s[i] = s[j] => i = j}

RECURSIVE SumPages(_, _)
SumPages(d, S) == IF S = {} THEN 0
                  ELSE LET p == CHOOSE q \in S : TRUE
                       IN  d[p].npages + SumPages(d, S \ {p})

\* A file that was on disk before the run: a valid document of n pages.
SourceFile(size, n) == [size |-> size, npages |-> n, valid |-> TRUE, of |-> NoPath, pages |-> <<>>]

\* The most pages the files of a disk holding k files have in all, and the
\* sizes each of them may have.
PageBudget(k) == IF k = 1 THEN MaxPages ELSE MaxBatchPages
SizesOn(k) == IF k = 1 THEN FileSizes ELSE BatchFileSizes

\* The initial filesystems: at most MaxDocs files, within the page budget.
InitialDisks == UNION {
    {d \in [S -> {SourceFile(s, n) : s \in SizesOn(Cardinality(S)), n \in 0..PageBudget(Cardinality(S))}] :
         SumPages(d, S) <= PageBudget(Cardinality(S))}
      : S \in {T \in SUBSET SourcePaths : T # {} /\ Cardinality(T) <= MaxDocs}}

\* str.lower() on a suffix.
Lower(suffix) == IF suffix = ".PDF" THEN ".pdf" ELSE suffix

\* ------------------------------------------------------------- the state
VARIABLES
    pc,               \* position of the single thread of control
    max_size,         \* args.max_size / max_size_mb, in MB
    input_pattern,    \* args.input
    disk,             \* the filesystem: path -> file
    exit_status,      \* process exit status, -1 while running
    pdf_files,        \* process_pdfs: the candidate list
    idx,              \* process_pdfs: how many candidates the for loop has taken
    total_split,      \* process_pdfs: the counter
    reported,         \* the count printed by the summary line, -1 before
    input_path,       \* split_pdf: the document being split
    file_size_mb,     \* split_pdf: size of the document (bytes / BytesPerMB)
    reader,           \* split_pdf: the opened document (its file as read), or NoReader
    total_pages,
    pages_per_chunk,
    output_files,
    chunk_num,
    current_page,
    chunk_start,
    writer,           \* split_pdf: pages added to the PdfWriter, in order
    output_path,
    chunk_size_mb,
    split_files,      \* process_pdfs: value returned by the last split_pdf call
    calls,            \* history: the documents split_pdf was invoked on, in order
    accepted,         \* history: the fragments accepted for the current document
    outcomes,         \* history: how each split_pdf call ended
    attempts,         \* history: candidates written for the current chunk start
    first_ppc         \* history: pages_per_chunk at the first attempt for it

batch == <<max_size, input_pattern, exit_status, pdf_files, idx, total_split, reported, split_files>>
plan == <<input_path, file_size_mb, reader, total_pages, pages_per_chunk, output_files,
          chunk_num, current_page, chunk_start, writer, output_path, chunk_size_mb>>
history == <<calls, accepted, outcomes, attempts, first_ppc>>
vars == <<pc, disk, batch, plan, history>>

NoReader == [size |-> 0, npages |-> 0, valid |-> FALSE, of |-> NoPath, pages |-> <<>>]

Init ==
    /\ pc = "main"
    /\ max_size \in MaxSizes
    /\ input_pattern \in InputPatterns
    /\ disk \in InitialDisks
    /\ exit_status = -1
    /\ pdf_files = <<>>
    /\ idx = 0
    /\ total_split = 0
    /\ reported = -1
    /\ input_path = NoPath
    /\ file_size_mb = 0
    /\ reader = NoReader
    /\ total_pages = 0
    /\ pages_per_chunk = 1
    /\ output_files = <<>>
    /\ chunk_num = 1
    /\ current_page = 0
    /\ chunk_start = 0
    /\ writer = <<>>
    /\ output_path = NoPath
    /\ chunk_size_mb = 0
    /\ split_files = <<>>
    /\ calls = <<>>
    /\ accepted = <<>>
    /\ outcomes = <<>>
    /\ attempts = 0
    /\ first_ppc = 0

\* The locals of split_pdf when no call is active: a call starts with a fresh
\* frame and its frame is discarded when it returns or raises.
NoFrame ==
    /\ input_path' = NoPath
    /\ file_size_mb' = 0
    /\ reader' = NoReader
    /\ total_pages' = 0
    /\ pages_per_chunk' = 1
    /\ output_files' = <<>>
    /\ chunk_num' = 1
    /\ current_page' = 0
    /\ chunk_start' = 0
    /\ writer' = <<>>
    /\ output_path' = NoPath
    /\ chunk_size_mb' = 0

\* ------------------------------------------------------------------ main
\* A variant that lets a maximum size of 0 through.
InvalidMaxSizeNegative(size) == size < 0

\* The argument check of main: "args.max_size <= 0".
InvalidMaxSize(size) == size <= 0

\* main(): a non-positive --max-size ends the process with status 1.
Main ==
    /\ pc = "main"
    /\ IF InvalidMaxSize(max_size)
         THEN pc' = "exit" /\ exit_status' = 1
         ELSE pc' = "resolve" /\ UNCHANGED exit_status
    /\ UNCHANGED <<disk, max_size, input_pattern, pdf_files, idx, total_split, reported,
                   split_files, plan, history>>

\* ---------------------------------------------------------- process_pdfs
is_file(pattern) == pattern.form = "name" /\ pattern.path \in DOMAIN disk
is_dir(pattern) == pattern.form = "dir"

\* The candidate sets of the three branches of the resolution.
Candidates(pattern) ==
    IF is_file(pattern)
      THEN IF Lower(pattern.path.suffix) = ".pdf" THEN {pattern.path} ELSE {}
    ELSE IF is_dir(pattern)
      THEN {f \in DOMAIN disk : f.parent = pattern.parent /\ f.suffix = ".pdf"}
    ELSE IF pattern.form = "glob"
      THEN {f \in DOMAIN disk : Lower(f.suffix) = ".pdf"}
    ELSE {}

\* process_pdfs up to the for loop: the candidates in some enumeration order.
Resolve ==
    /\ pc = "resolve"
    /\ \E files \in Orderings(Candidates(input_pattern)) :
         /\ pdf_files' = files
         /\ IF files = <<>>
              THEN pc' = "exit" /\ exit_status' = 0
              ELSE pc' = "for" /\ UNCHANGED exit_status
    /\ total_split' = 0
    /\ idx' = 0
    /\ UNCHANGED <<disk, max_size, input_pattern, reported, split_files, plan, history>>

\* The for statement: take the next candidate and call split_pdf on it, or
\* leave the loop.
For ==
    /\ pc = "for"
    /\ IF idx < Len(pdf_files)
         THEN /\ idx' = idx + 1
              /\ input_path' = pdf_files[idx + 1]
              /\ calls' = Append(calls, pdf_files[idx + 1])
              /\ accepted' = <<>>
              /\ split_files' = <<>>
              /\ pc' = "size_check"
         ELSE /\ pc' = "summary"
              /\ UNCHANGED <<idx, input_path, calls, accepted, split_files>>
    /\ UNCHANGED <<disk, max_size, input_pattern, exit_status, pdf_files, total_split, reported,
                   file_size_mb, reader, total_pages, pages_per_chunk, output_files,
                   chunk_num, current_page, chunk_start, writer, output_path, chunk_size_mb,
                   outcomes, attempts, first_ppc>>

\* ------------------------------------------------------------- split_pdf
\* get_file_size_mb: the size of the file at the path (see "Sizes" above).
get_file_size_mb(file_path) == disk[file_path].size

\* An exception leaves split_pdf, with the filesystem as d, and is caught by
\* process_pdfs.
Raise(d) ==
    /\ pc' = "except"
    /\ disk' = d
    /\ outcomes' = Append(outcomes, [doc |-> input_path, ok |-> FALSE, accepted |-> Len(output_files)])
    /\ NoFrame
    /\ attempts' = 0
    /\ first_ppc' = 0
    /\ UNCHANGED <<batch, calls, accepted>>

\* A variant that also splits a document exactly at the ceiling.
UnderCeilingStrict(size) == size < max_size * BytesPerMB

\* The early return of split_pdf: a document at or under the ceiling.
UnderCeiling(size) == size <= max_size * BytesPerMB

\* Lines 20-26: measure the document; return [] when it is not over the ceiling.
SizeCheck ==
    /\ pc = "size_check"
    /\ \/ /\ input_path \in DOMAIN disk
          /\ UnderCeiling(get_file_size_mb(input_path))
          /\ pc' = "after_call"
          /\ split_files' = <<>>
          /\ outcomes' = Append(outcomes, [doc |-> input_path, ok |-> TRUE, accepted |-> 0])
          /\ NoFrame
          /\ UNCHANGED <<disk, max_size, input_pattern, exit_status, pdf_files, idx, total_split,
                         reported, calls, accepted, attempts, first_ppc>>
       \/ /\ input_path \in DOMAIN disk
          /\ ~UnderCeiling(get_file_size_mb(input_path))
          /\ file_size_mb' = get_file_size_mb(input_path)
          /\ pc' = "open"
          /\ UNCHANGED <<disk, batch, input_path, reader, total_pages, pages_per_chunk, output_files,
                         chunk_num, current_page, chunk_start, writer, output_path, chunk_size_mb,
                         history>>
       \/ Raise(disk)

\* A variant that rounds the quotient up.
EstimateRoundsUp(n, max_mb, size) == Max(1, (n * max_mb * BytesPerMB + size - 1) \div size)

\* A variant with the ratio of the sizes inverted.
EstimateInverted(n, max_mb, size) == Max(1, (n * size) \div (max_mb * BytesPerMB))

\* A variant without the lower limit of one page.
EstimateNoFloor(n, max_mb, size) == (n * max_mb * BytesPerMB) \div size

\* The initial estimate: max(1, int(total_pages * max_size_mb / file_size_mb)),
\* in exact arithmetic (int() truncates, and the quotient is not negative).
Estimate(n, max_mb, size) == Max(1, (n * max_mb * BytesPerMB) \div size)

\* Lines 28-36: open the document and set up the plan state.
Open ==
    /\ pc = "open"
    /\ \/ /\ input_path \in DOMAIN disk
          /\ disk[input_path].valid
          /\ reader' = disk[input_path]
          /\ total_pages' = disk[input_path].npages
          /\ pages_per_chunk' = Estimate(disk[input_path].npages, max_size, file_size_mb)
          /\ output_files' = <<>>
          /\ chunk_num' = 1
          /\ current_page' = 0
          /\ pc' = "while"
          /\ UNCHANGED <<disk, batch, input_path, file_size_mb, chunk_start, writer, output_path,
                         chunk_size_mb, history>>
       \/ Raise(disk)

\* Lines 38-40: the while test; a new PdfWriter for the next attempt.
While ==
    /\ pc = "while"
    /\ IF current_page < total_pages
         THEN /\ writer' = <<>>
              /\ chunk_start' = current_page
              /\ first_ppc' = IF attempts = 0 THEN pages_per_chunk ELSE first_ppc
              /\ pc' = "add"
         ELSE /\ pc' = "return"
              /\ UNCHANGED <<writer, chunk_start, first_ppc>>
    /\ UNCHANGED <<disk, batch, input_path, file_size_mb, reader, total_pages, pages_per_chunk,
                   output_files, chunk_num, current_page, output_path, chunk_size_mb,
                   calls, accepted, outcomes, attempts>>

\* Lines 43-47: one iteration of "for _ in range(pages_per_chunk)".  Every
\* iteration that does not break adds one page, so the iterations done so far
\* number Len(writer).
AddPage ==
    /\ pc = "add"
    /\ \/ /\ Len(writer) < pages_per_chunk /\ current_page < total_pages
          /\ writer' = Append(writer, current_page)
          /\ current_page' = current_page + 1
          /\ pc' = "add"
          /\ UNCHANGED <<disk, batch, input_path, file_size_mb, reader, total_pages, pages_per_chunk,
                         output_files, chunk_num, chunk_start, output_path, chunk_size_mb, history>>
       \/ /\ ~(Len(writer) < pages_per_chunk /\ current_page < total_pages)
          /\ pc' = "write"
          /\ UNCHANGED <<disk, batch, plan, history>>
       \/ /\ Len(writer) < pages_per_chunk /\ current_page < total_pages
          /\ Raise(disk)

\* A variant that names the fragment in the current directory.
PartPathInCwd(path, n) == [parent |-> ".", base |-> path.base, parts |-> Append(path.parts, n), suffix |-> ".pdf"]

\* The output filename: input_path.parent / f"{input_path.stem}_part{chunk_num}.pdf".
PartPath(path, n) == [parent |-> path.parent, base |-> path.base, parts |-> Append(path.parts, n), suffix |-> ".pdf"]

\* A completely written fragment of the document being split.
Fragment(size) == [size |-> size, npages |-> Len(writer), valid |-> TRUE, of |-> input_path, pages |-> writer]
\* What a write that raised partway leaves at the path.
Partial(size) == [size |-> size, npages |-> Len(writer), valid |-> FALSE, of |-> input_path, pages |-> writer]

\* The filesystem after the file f is created or replaced at path p.
Stored(p, f) == [q \in DOMAIN disk \cup {p} |-> IF q = p THEN f ELSE disk[q]]
\* A variant in which the file is not deleted.
RemovedNothing(p) == disk

\* The filesystem after os.remove(p).
Removed(p) == [q \in DOMAIN disk \ {p} |-> disk[q]]

\* Lines 50-54: name the candidate, create the file and write the chunk.
\* open() may raise before the file exists; writer.write may raise after it
\* was created, and the with statement then closes the file and re-raises.
Write ==
    /\ pc = "write"
    /\ attempts < AttemptCap
    /\ \/ /\ output_path' = PartPath(input_path, chunk_num)
          /\ \E size \in FragSizes : disk' = Stored(PartPath(input_path, chunk_num), Fragment(size))
          /\ attempts' = attempts + 1
          /\ pc' = "measure"
          /\ UNCHANGED <<batch, input_path, file_size_mb, reader, total_pages, pages_per_chunk,
                         output_files, chunk_num, current_page, chunk_start, writer, chunk_size_mb,
                         calls, accepted, outcomes, first_ppc>>
       \/ \E size \in PartialSizes : Raise(Stored(PartPath(input_path, chunk_num), Partial(size)))
       \/ Raise(disk)

\* Line 57: measure the candidate just written.
Measure ==
    /\ pc = "measure"
    /\ \/ /\ output_path \in DOMAIN disk
          /\ chunk_size_mb' = get_file_size_mb(output_path)
          /\ pc' = "if"
          /\ UNCHANGED <<disk, batch, input_path, file_size_mb, reader, total_pages, pages_per_chunk,
                         output_files, chunk_num, current_page, chunk_start, writer, output_path,
                         history>>
       \/ Raise(disk)

\* A variant that retries every oversized chunk, a single page included.
OversizedAnyPages(size, start, current) == size > max_size * BytesPerMB

\* A variant that only retries chunks of three pages or more.
OversizedOverTwo(size, start, current) == size > max_size * BytesPerMB /\ (current - start) > 2

\* The test of line 59: oversized, and more than one page to give back.
Oversized(size, start, current) == size > max_size * BytesPerMB /\ (current - start) > 1

\* Line 59: choose between the retry branch and acceptance.
If ==
    /\ pc = "if"
    /\ pc' = IF Oversized(chunk_size_mb, chunk_start, current_page) THEN "remove" ELSE "accept"
    /\ UNCHANGED <<disk, batch, plan, history>>

\* A variant that rounds the half up.
HalveRoundsUp(ppc) == Max(1, (ppc + 1) \div 2)

\* A variant that gives back one page at a time.
HalveByOne(ppc) == Max(1, ppc - 1)

\* pages_per_chunk after a rejected attempt: max(1, pages_per_chunk // 2).
Halve(ppc) == Max(1, ppc \div 2)

\* A variant that leaves current_page where the rejected attempt advanced it.
RewindSkips(start, current) == current

\* current_page after a rejected attempt that started at start and advanced
\* to current: "current_page = chunk_start".
Rewind(start, current) == start

\* Lines 61-64: delete the candidate, undo the advance, halve, continue.
Remove ==
    /\ pc = "remove"
    /\ \/ /\ output_path \in DOMAIN disk
          /\ disk' = Removed(output_path)
          /\ current_page' = Rewind(chunk_start, current_page)
          /\ pages_per_chunk' = Halve(pages_per_chunk)
          /\ pc' = "while"
          /\ UNCHANGED <<batch, input_path, file_size_mb, reader, total_pages, output_files, chunk_num,
                         chunk_start, writer, output_path, chunk_size_mb, history>>
       \/ Raise(disk)

\* A variant that starts every chunk again from the initial estimate.
ResetEstimate(ppc) == Estimate(total_pages, max_size, file_size_mb)

\* pages_per_chunk for the chunk after an accepted one: lines 66-68 do not
\* assign it, so the next chunk starts from the value the last attempt used.
NextChunkEstimate(ppc) == ppc

\* Lines 66-68: accept the candidate and move to the next ordinal.
Accept ==
    /\ pc = "accept"
    /\ output_files' = Append(output_files, output_path)
    /\ chunk_num' = chunk_num + 1
    /\ accepted' = Append(accepted, [path |-> output_path, start |-> chunk_start, stop |-> current_page,
                                      size |-> chunk_size_mb, ppc |-> pages_per_chunk])
    /\ attempts' = 0
    /\ pages_per_chunk' = NextChunkEstimate(pages_per_chunk)
    /\ pc' = "while"
    /\ UNCHANGED <<disk, batch, input_path, file_size_mb, reader, total_pages,
                   current_page, chunk_start, writer, output_path, chunk_size_mb,
                   calls, outcomes, first_ppc>>

\* Line 70: return output_files.
Return ==
    /\ pc = "return"
    /\ split_files' = output_files
    /\ outcomes' = Append(outcomes, [doc |-> input_path, ok |-> TRUE, accepted |-> Len(output_files)])
    /\ pc' = "after_call"
    /\ NoFrame
    /\ attempts' = 0
    /\ first_ppc' = 0
    /\ UNCHANGED <<disk, max_size, input_pattern, exit_status, pdf_files, idx, total_split, reported,
                   calls, accepted>>

\* ------------------------------------------- process_pdfs, after the call
\* A variant that counts every call that returned.
CountedAlways(files) == TRUE

\* "if split_files": a returned list counts when it is not empty.
Counted(files) == files # <<>>

\* Lines 95-96: count the document when split_pdf returned a non-empty list.
AfterCall ==
    /\ pc = "after_call"
    /\ total_split' = IF Counted(split_files) THEN total_split + 1 ELSE total_split
    /\ pc' = "for"
    /\ UNCHANGED <<disk, max_size, input_pattern, exit_status, pdf_files, idx, reported, split_files,
                   plan, history>>

\* A variant with the try statement around the whole loop: the first exception
\* ends the loop.
ExceptLeavesLoop == "summary"

\* Where control goes after the except clause: the try statement is inside
\* the for loop, so the loop takes its next candidate.
ExceptResume == "for"

\* Lines 97-98: the exception of one document is reported and the loop goes on.
Except ==
    /\ pc = "except"
    /\ pc' = ExceptResume
    /\ UNCHANGED <<disk, batch, plan, history>>

\* Line 100: the summary line; process_pdfs and main then end normally.
Summary ==
    /\ pc = "summary"
    /\ reported' = total_split
    /\ exit_status' = 0
    /\ pc' = "exit"
    /\ UNCHANGED <<disk, max_size, input_pattern, pdf_files, idx, total_split, split_files,
                   plan, history>>

Next ==
    \/ Main
    \/ Resolve
    \/ For
    \/ SizeCheck
    \/ Open
    \/ While
    \/ AddPage
    \/ Write
    \/ Measure
    \/ If
    \/ Remove
    \/ Accept
    \/ Return
    \/ AfterCall
    \/ Except
    \/ Summary

Spec == Init /\ [][Next]_vars

\* The code's scheduling: one thread that always takes its next step.
FairSpec == Spec /\ WF_vars(Next)
\* ======================================================== checked properties
\* The pages of the files at the given paths, concatenated in order.
RECURSIVE PagesOf(_)
PagesOf(paths) ==
    IF paths = <<>> THEN <<>>
    ELSE (IF Head(paths) \in DOMAIN disk THEN disk[Head(paths)].pages ELSE <<-1>>) \o PagesOf(Tail(paths))

\* The ceiling in bytes.
CeilingBytes == max_size * BytesPerMB

\* C1 (coverage): when split_pdf is about to return normally for a document of
\* N >= 1 pages over the ceiling, the accepted fragment files, in the order
\* returned, are each non-empty and hold pages 0, 1, ..., N-1 in that order
\* with no page missing or repeated: their ranges are contiguous, do not
\* overlap and cover exactly [0, N).
C1_Coverage ==
    (pc = "return" /\ total_pages >= 1) =>
        /\ PagesOf(output_files) = [i \in 1..total_pages |-> i - 1]
        /\ \A k \in DOMAIN output_files : disk[output_files[k]].npages >= 1
        /\ \A k \in DOMAIN accepted :
              /\ accepted[k].start = (IF k = 1 THEN 0 ELSE accepted[k - 1].stop)
              /\ accepted[k].start < accepted[k].stop
              /\ disk[output_files[k]].pages = [i \in 1..(accepted[k].stop - accepted[k].start) |-> accepted[k].start + i - 1]
        /\ Len(accepted) = Len(output_files)
        /\ accepted[Len(accepted)].stop = total_pages

\* C1 witness: a normal return after at least one rejected attempt, with
\* three or more fragments accepted.
C1_Witness ==
    /\ pc = "return"
    /\ total_pages >= 4
    /\ Len(output_files) >= 3
    /\ pages_per_chunk < Estimate(total_pages, max_size, file_size_mb)

\* C2 (ceiling respected when possible): every fragment accepted for the
\* current document that holds more than one page measured, and is on disk
\* with, a size at most the ceiling.
C2_CeilingRespected ==
    \A k \in DOMAIN accepted :
        (accepted[k].stop - accepted[k].start > 1 \/ disk[accepted[k].path].npages > 1) =>
            /\ accepted[k].size <= CeilingBytes
            /\ disk[accepted[k].path].size <= CeilingBytes

\* C2 witness: a two-page fragment at the ceiling and an oversized one-page
\* fragment are both accepted for one document.
C2_Witness ==
    /\ \E k \in DOMAIN accepted : accepted[k].stop - accepted[k].start > 1 /\ accepted[k].size = CeilingBytes
    /\ \E k \in DOMAIN accepted : accepted[k].stop - accepted[k].start = 1 /\ accepted[k].size > CeilingBytes
\* The split_pdf call on the current candidate has ended, by return or by an
\* exception, and process_pdfs has not yet gone on.
CallEnded == pc \in {"after_call", "except"}

\* The document of the latest split_pdf call.
LastDoc == calls[Len(calls)]

\* The files on disk written by the latest split_pdf call.
FragmentsOfLastDoc == {p \in DOMAIN disk : disk[p].of = LastDoc}

\* C3 (no orphaned files): once split_pdf has ended, by return or by a
\* propagated failure, no completely written file of the call is on disk with
\* a size above the ceiling and more than one page.  (A file cut short by a
\* failed write is left to C4.)
C3_NoOrphans ==
    CallEnded =>
        \A p \in FragmentsOfLastDoc :
            disk[p].valid => ~(disk[p].size > CeilingBytes /\ disk[p].npages > 1)

\* C4 (no partial output): once split_pdf has ended, no interrupted write has
\* left a file behind, and every file the call wrote is one of its accepted
\* fragments.
C4_NoPartialOutput ==
    CallEnded =>
        \A p \in FragmentsOfLastDoc :
            /\ disk[p].valid
            /\ \E k \in DOMAIN accepted : accepted[k].path = p

\* C5 (no-op at or under the ceiling): a split_pdf call on a document whose
\* size is at most the ceiling, when measuring it does not raise, returns the
\* empty list at once: the document is not opened and the filesystem is left
\* as it was.
C5_NoOp ==
    [][(/\ pc = "size_check"
        /\ input_path \in DOMAIN disk
        /\ disk[input_path].size <= CeilingBytes
        /\ pc' # "except")
       => (/\ pc' = "after_call"
           /\ split_files' = <<>>
           /\ reader' = NoReader
           /\ disk' = disk)]_vars

\* C5 witness: a call on a document of several pages whose size equals the
\* ceiling has returned the empty list.
C5_Witness ==
    /\ pc = "after_call"
    /\ LastDoc \in DOMAIN disk
    /\ disk[LastDoc].size = CeilingBytes
    /\ disk[LastDoc].npages >= 2
    /\ split_files = <<>>
    /\ outcomes[Len(outcomes)].ok
\* C6 (batch isolation): at every point of the for loop split_pdf has been
\* invoked exactly once on each candidate taken so far, in enumeration order,
\* whatever the earlier calls did; once the loop has started the run reaches
\* the summary line, and by then every candidate has been invoked once.
C6_BatchIsolation ==
    /\ [](pc \notin {"main", "resolve"} => calls = SubSeq(pdf_files, 1, idx))
    /\ [](reported >= 0 => calls = pdf_files)
    /\ ((pc = "for") ~> (reported >= 0))

\* C6 witness: the summary is reached after a batch of two candidates whose
\* first call raised after accepting a fragment and whose second call
\* returned fragments.
C6_Witness ==
    /\ reported >= 0
    /\ Len(outcomes) >= 2
    /\ ~outcomes[1].ok /\ outcomes[1].accepted >= 1
    /\ outcomes[2].ok /\ outcomes[2].accepted >= 1
\* The number of calls, among those ended so far, that satisfy a condition.
CallsWith(Cond(_)) == Cardinality({i \in DOMAIN outcomes : Cond(outcomes[i])})

AcceptedSome(o) == o.accepted >= 1
ReturnedSome(o) == o.ok /\ o.accepted >= 1

\* C7 as claimed (summary count): the count reported by the summary line is
\* the number of candidates for which split_pdf accepted at least one fragment.
C7_CountsAccepting ==
    reported >= 0 => reported = CallsWith(AcceptedSome)

\* C7 as amended: the count reported by the summary line is the number of
\* candidates whose split_pdf call returned normally with at least one
\* accepted fragment; a document at or under the ceiling, and a document whose
\* call raised (even after accepting fragments), is not counted.
C7_CountsReturned ==
    reported >= 0 => reported = CallsWith(ReturnedSome)

\* C7 witness: a summary of 1 after a batch of two candidates, one split and
\* one at the ceiling.
C7_Witness ==
    /\ reported = 1
    /\ Len(outcomes) = 2
    /\ \E i \in DOMAIN outcomes : /\ outcomes[i].ok /\ outcomes[i].accepted = 0
                                     /\ outcomes[i].doc \in DOMAIN disk
                                     /\ disk[outcomes[i].doc].size = CeilingBytes

\* The least k with 2^k >= p.
RECURSIVE CeilLog2(_)
CeilLog2(p) == IF p <= 1 THEN 0 ELSE 1 + CeilLog2((p + 1) \div 2)

\* C8 (retry bound): the candidates written for one chunk start number at
\* most ceil(log2(p)) + 1, p being pages_per_chunk at the first attempt for
\* that chunk start.
C8_RetryBound ==
    attempts >= 1 => attempts <= CeilLog2(first_ppc) + 1

\* C8 witness: the third candidate for a chunk start whose first attempt used
\* pages_per_chunk = 4 has been written.
C8_Witness ==
    /\ pc = "measure"
    /\ first_ppc = 4
    /\ attempts = 3

\* C9 (termination of planning): once the planning loop of a document is
\* entered it ends, with current_page = total_pages, unless a library or
\* filesystem call raises; every accepted fragment has at least one page and
\* ends beyond the end of the fragment accepted before it.
C9_PlanningTerminates ==
    /\ ((pc = "while") ~> ((pc = "return" /\ current_page = total_pages) \/ pc = "except"))
    /\ [](pc = "accept" =>
            /\ current_page - chunk_start >= 1
            /\ accepted # <<>> => current_page > accepted[Len(accepted)].stop)

\* C9 witness: the loop of a five-page document has ended after an oversized
\* single page was accepted and a chunk was rejected.
C9_Witness ==
    /\ pc = "return"
    /\ current_page = total_pages
    /\ total_pages = 5
    /\ \E k \in DOMAIN accepted : accepted[k].stop - accepted[k].start = 1 /\ accepted[k].size > CeilingBytes
    /\ pages_per_chunk < Estimate(total_pages, max_size, file_size_mb)

\* The name "{stem}_part{n}.pdf" in the directory of the given document.
OrdinalPath(doc, n) == [parent |-> doc.parent, base |-> doc.base, parts |-> doc.parts \o <<n>>, suffix |-> ".pdf"]

\* C10 (ordinals): the k-th accepted fragment is at the path with ordinal k in
\* the directory of the document, and every candidate, a retry included, is
\* written at the path with the ordinal after the last accepted one, so a
\* rejected attempt consumes no ordinal.
C10_Ordinals ==
    /\ \A k \in DOMAIN output_files : output_files[k] = OrdinalPath(input_path, k)
    /\ pc \in {"measure", "if", "remove", "accept"} =>
          /\ output_path = OrdinalPath(input_path, Len(output_files) + 1)
          /\ chunk_num = Len(output_files) + 1

\* C10 witness: a retry has written its candidate at ordinal 2, after one
\* fragment was accepted, for a document in directory d2.
C10_Witness ==
    /\ pc = "measure"
    /\ attempts = 2
    /\ Len(output_files) = 1
    /\ input_path.parent = "d2"
    /\ output_path.parts = <<2>>

\* C11 (single oversized page): a candidate of exactly one page goes from the
\* test of line 59 to acceptance whatever its measured size, and the
\* acceptance appends it, leaves its file in place and raises nothing.
C11_SinglePageAccepted ==
    [][/\ (pc = "if" /\ current_page - chunk_start = 1) => pc' = "accept"
       /\ (pc = "accept" /\ current_page - chunk_start = 1) =>
             /\ pc' = "while"
             /\ output_files' = Append(output_files, output_path)
             /\ disk' = disk
             /\ pages_per_chunk' = pages_per_chunk]_vars

\* C11 witness: a one-page fragment measured above the ceiling has been
\* accepted and is on disk.
C11_Witness ==
    /\ pc = "while"
    /\ accepted # <<>>
    /\ accepted[Len(accepted)].stop - accepted[Len(accepted)].start = 1
    /\ accepted[Len(accepted)].size > CeilingBytes
    /\ accepted[Len(accepted)].path \in DOMAIN disk
    /\ disk[accepted[Len(accepted)].path].npages = 1

\* Files written by a split_pdf call of this run.
WrittenFiles == {p \in DOMAIN disk : disk[p].of # NoPath}

\* C12 (invalid configuration): with a maximum size of 0 or less the run goes
\* from main straight to exit status 1; no candidate is resolved, split_pdf
\* is never called and no file is written or deleted.
C12_InvalidConfiguration ==
    /\ [](max_size <= 0 =>
            /\ pc \in {"main", "exit"}
            /\ pc = "exit" => exit_status = 1
            /\ pdf_files = <<>> /\ calls = <<>> /\ reader = NoReader
            /\ WrittenFiles = {})
    /\ [][max_size <= 0 => disk' = disk]_vars

\* C12 witness: the run has ended with status 1 for a maximum size of 0,
\* with a document over any positive ceiling on disk.
C12_Witness ==
    /\ pc = "exit"
    /\ max_size = 0
    /\ exit_status = 1
    /\ \E p \in DOMAIN disk : disk[p].npages >= 2

\* The positions of the planning loop of split_pdf, from the while test to
\* the return statement.
InPlan == pc \in {"while", "add", "write", "measure", "if", "remove", "accept", "return"}

\* C13 (the estimate never grows and is carried forward): while one document
\* is planned pages_per_chunk never increases and changes only in the step
\* that rejects an attempt; the first attempt for a chunk that follows an
\* accepted one uses the value the accepted attempt used.
C13_EstimateCarried ==
    /\ [][(InPlan /\ InPlan') =>
            /\ pages_per_chunk' <= pages_per_chunk
            /\ pages_per_chunk' # pages_per_chunk => (pc = "remove" /\ pc' = "while")]_vars
    /\ []((pc \in {"add", "write"} /\ attempts = 0 /\ accepted # <<>>) =>
            /\ pages_per_chunk = accepted[Len(accepted)].ppc
            /\ first_ppc = accepted[Len(accepted)].ppc)

\* C13 witness: the first attempt for a second chunk is about to be written
\* with an estimate smaller than the initial one.
C13_Witness ==
    /\ pc = "write"
    /\ attempts = 0
    /\ Len(accepted) = 1
    /\ pages_per_chunk = 2
    /\ Estimate(total_pages, max_size, file_size_mb) = 4

\* C14 (plan-state invariant): at every position of the planning loop
\* 0 <= current_page <= total_pages and pages_per_chunk >= 1.
C14_PlanState ==
    InPlan =>
        /\ 0 <= current_page
        /\ current_page <= total_pages
        /\ pages_per_chunk >= 1

\* C14 witness: pages are being added to a chunk right after a retry halved
\* pages_per_chunk from 3 to 1.
C14_Witness ==
    /\ pc = "add"
    /\ attempts = 1
    /\ first_ppc = 3
    /\ pages_per_chunk = 1
    /\ current_page = chunk_start + 1
    /\ current_page < total_pages

\* C15 (delete before retry): whenever a candidate is about to be written,
\* every file the current split_pdf call has written and that is still on
\* disk is an accepted fragment; in particular no rejected candidate is at
\* the path the write goes to.
C15_DeleteBeforeRetry ==
    pc = "write" =>
        /\ \A p \in DOMAIN disk : disk[p].of = input_path => p \in Range(output_files)
        /\ OrdinalPath(input_path, chunk_num) \in DOMAIN disk =>
              disk[OrdinalPath(input_path, chunk_num)].of # input_path

\* C15 witness: a retry is about to write its candidate and the path it
\* writes to holds no file.
C15_Witness ==
    /\ pc = "write"
    /\ attempts >= 1
    /\ OrdinalPath(input_path, chunk_num) \notin DOMAIN disk

\* C16 (effect of a rejected attempt): the step that rejects an attempt sets
\* current_page back to chunk_start, replaces pages_per_chunk by
\* max(1, floor(pages_per_chunk / 2)), and leaves the list of accepted
\* fragments, the ordinal and every accepted fragment file as they were.
C16_RejectedAttempt ==
    [][(pc = "remove" /\ pc' = "while") =>
        /\ current_page' = chunk_start
        /\ chunk_start' = chunk_start
        /\ pages_per_chunk' = (IF pages_per_chunk \div 2 >= 1 THEN pages_per_chunk \div 2 ELSE 1)
        /\ output_files' = output_files
        /\ accepted' = accepted
        /\ chunk_num' = chunk_num
        /\ \A k \in DOMAIN output_files :
              /\ output_files[k] \in DOMAIN disk'
              /\ disk'[output_files[k]] = disk[output_files[k]]]_vars

\* C16 witness: a two-page attempt for the second chunk has just been
\* rejected, the first fragment staying accepted.
C16_Witness ==
    /\ pc = "while"
    /\ attempts = 1
    /\ first_ppc = 2
    /\ pages_per_chunk = 1
    /\ Len(output_files) = 1
    /\ current_page = chunk_start
    /\ chunk_start >= 1

\* The first attempt of a split_pdf call is being prepared or written.
FirstAttempt == pc \in {"while", "add", "write"} /\ accepted = <<>> /\ attempts = 0

\* C17 (initial estimate): for a document over the ceiling the first attempt
\* uses p = max(1, floor(N * ceiling / size)), N being the page count and
\* ceiling and size being in the same unit: p >= 1, and either
\* p * size <= N * ceiling < (p + 1) * size, or p = 1 and N * ceiling < size.
\* For 10 pages, size 10 MB and ceiling 4 MB the estimate is 4.
C17_InitialEstimate ==
    /\ Estimate(10, 4, 10 * BytesPerMB) = 4
    /\ (FirstAttempt /\ input_path \in DOMAIN disk) =>
          /\ file_size_mb = disk[input_path].size
          /\ file_size_mb > CeilingBytes
          /\ total_pages = disk[input_path].npages
          /\ pages_per_chunk >= 1
          /\ \/ /\ pages_per_chunk * file_size_mb <= total_pages * CeilingBytes
                /\ total_pages * CeilingBytes < (pages_per_chunk + 1) * file_size_mb
             \/ /\ pages_per_chunk = 1
                /\ total_pages * CeilingBytes < file_size_mb

\* C17 witness: the first attempt for a document of 5 pages and twice the
\* ceiling is about to be written with the estimated 2 pages.
C17_Witness ==
    /\ FirstAttempt
    /\ pc = "write"
    /\ total_pages = 5
    /\ file_size_mb = 2 * CeilingBytes
    /\ pages_per_chunk = 2
    /\ Len(writer) = 2

\* C18 (sources are never written or deleted): once the candidates are
\* resolved, every candidate document of the run stays on disk as it was
\* before the run; no split_pdf call writes or deletes a file at the path of
\* a candidate.
C18_SourcesUntouched ==
    pc \notin {"main", "resolve"} =>
        \A i \in DOMAIN pdf_files :
            /\ pdf_files[i] \in DOMAIN disk
            /\ disk[pdf_files[i]].of = NoPath

\* The number of pages of the k-th accepted fragment.
AcceptedPages(k) == accepted[k].stop - accepted[k].start

\* C19 (fragment sizes in pages): during the planning of a document the
\* accepted fragments' page counts never increase from one fragment to the
\* next; each fragment holds at most the pages_per_chunk in force when it was
\* accepted, and one that holds fewer ends the document (it is the last).
C19_PageCounts ==
    InPlan =>
        \A k \in DOMAIN accepted :
            /\ disk[accepted[k].path].npages = AcceptedPages(k)
            /\ AcceptedPages(k) <= accepted[k].ppc
            /\ AcceptedPages(k) < accepted[k].ppc => (k = Len(accepted) /\ accepted[k].stop = total_pages)
            /\ k > 1 => AcceptedPages(k) <= AcceptedPages(k - 1)

\* C19 witness: a document has been planned into fragments of 2, 2 and 1
\* pages, the last one shorter than pages_per_chunk.
C19_Witness ==
    /\ pc = "return"
    /\ Len(accepted) = 3
    /\ AcceptedPages(1) = 2 /\ AcceptedPages(2) = 2 /\ AcceptedPages(3) = 1
    /\ accepted[3].ppc = 2

\* C20 (never the whole document): while a document of N >= 2 pages over the
\* ceiling is planned, pages_per_chunk is at most N - 1, no candidate holds
\* all N pages, and a normal return comes with at least two fragments.
C20_AtLeastTwoFragments ==
    (InPlan /\ total_pages >= 2 /\ file_size_mb > CeilingBytes) =>
        /\ pages_per_chunk <= total_pages - 1
        /\ Len(writer) < total_pages
        /\ current_page - chunk_start < total_pages
        /\ \A p \in DOMAIN disk : disk[p].of = input_path => disk[p].npages < total_pages
        /\ pc = "return" => Len(output_files) >= 2

\* C20 witness: a five-page document one byte over the ceiling returns
\* exactly two fragments, of four pages and one page.
C20_Witness ==
    /\ pc = "return"
    /\ total_pages = 5
    /\ file_size_mb = CeilingBytes + 1
    /\ Len(accepted) = 2
    /\ AcceptedPages(1) = 4
====
